---- MODULE Spec2Model ----
(***************************************************************************)
(* Settlement core of the m2 marketplace: the ocp_execute_sale_v2          *)
(* instruction (programs/m2/src/ocp_ins/ocp_execute_sale_v2.rs).           *)
(*                                                                         *)
(* One settlement attempt is one ledger transaction.  The model keeps the  *)
(* committed accounts in `ledger` and runs the attempt on a working copy   *)
(* `acc`, one action per stage of the instruction, in the order of the     *)
(* source.  An attempt that returns Ok is committed by Finish; one that    *)
(* returns Err is dropped by Finish.  Attempts never interleave: the       *)
(* ledger runs one transaction on these accounts at a time.                *)
(***************************************************************************)
EXTENDS Integers, Sequences, FiniteSets, TLC

VARIABLES ledger, pc, req, acc, err, log, amt, uses

vars == <<ledger, pc, req, acc, err, log, amt, uses>>

(***************************************************************************)
(* Bounds of the model.                                                    *)
(***************************************************************************)
\* largest clock reading an attempt can see (Clock::get, line 162)
MaxTime == 3
\* largest magnitude of a stored expiry that is not a sentinel
MaxExpiry == 2

(***************************************************************************)
(* Program constants.  crate::constants is not part of the sources; the    *)
(* values are the "configured maximum" of the fee constraints.             *)
(***************************************************************************)
MAX_MAKER_FEE_BP == 500
MAX_TAKER_FEE_BP == 500
\* the scaling denominator handed to pay_creator_fees (line 252) and the
\* divisor of the fee computation (lines 269, 274)
BpDenominator == 10000

(***************************************************************************)
(* The parties and accounts of the model.                                  *)
(***************************************************************************)
Seller == "s"
Buyers == {"b1", "b2"}
Outsider == "x"
Treasury == "treasury"
Creators == {"c1", "c2"}
Wallets == Buyers \cup {Seller, Treasury} \cup Creators
Mints == {"m1", "m2"}
BidKeys == Buyers \X Mints
ConfiguredNotary == "notary"
Notaries == {ConfiguredNotary, "other"}

\* lamports held as rent by the offer record, a bid record, an open escrow
\* account and a buyer's receiving token account
OfferRent == 7
BidRent == 5
EscrowReserve == 3
AtaRent == 2
\* the asking price of the standing offer, and a second price that differs
AskPrice == 15050
OtherPrice == 10000

(***************************************************************************)
(* Integer conversions of the source.                                      *)
(***************************************************************************)
\* the magnitude of an integer of the checker
Abs(x) == IF x < 0 THEN -x ELSE x

\* `x as i16` of a u16 (line 98)
AsI16(x) == IF x >= 32768 THEN x - 65536 ELSE x

\* `-(x)` of an i16 (line 98): the negation of i16::MIN overflows, which
\* panics in a build with overflow checks and wraps to i16::MIN without.
NegI16(x) ==
    IF x = -32768
    THEN {[panic |-> TRUE, v |-> 0], [panic |-> FALSE, v |-> -32768]}
    ELSE {[panic |-> FALSE, v |-> -x]}

\* `x as u64` of an i64 (lines 284, 287): a negative x becomes x + 2^64.
\* The model's integers stay below 2^31, so the result is kept as the pair
\* (wrapped, v) standing for v + 2^64 when wrapped and v otherwise.
AsU64(x) == [wrapped |-> x < 0, v |-> x]

\* a u64 amount that came from no conversion
U64(x) == [wrapped |-> FALSE, v |-> x]

\* `amount > 0` of a u64 (line 303)
IsPositive(a) == a.wrapped \/ a.v > 0

\* TruncDiv with the quotient rounded toward minus infinity
FloorDiv(a, b) == a \div b

\* checked_div of the source: Rust's integer division truncates toward zero
TruncDiv(a, b) == IF a >= 0 THEN a \div b ELSE -((-a) \div b)

(***************************************************************************)
(* Integers at the widths of the source.  u64, i64 and 128-bit values do   *)
(* not fit the integers of the checker: a natural number is kept as        *)
(* WideLen digits in base BpDenominator, least significant first, so that  *)
(* checked_div(10000) is a shift by one digit; an integer is a sign and a  *)
(* magnitude.  The stored expiries and the amounts of the fee computation  *)
(* at full width are such integers.                                        *)
(***************************************************************************)
\* digits kept for a number: enough for the product of a u64 and a u16
WideLen == 7

Pad(d) == [i \in 1..WideLen |-> IF i <= Len(d) THEN d[i] ELSE 0]

NZero == Pad(<<>>)

\* a natural number of the checker's integers as digits
NOfInt(n) ==
    Pad(<<n % BpDenominator, (n \div BpDenominator) % BpDenominator,
          n \div (BpDenominator * BpDenominator)>>)

\* 2^63 = 9223372036854775808 and 2^64 = 18446744073709551616
TwoTo63 == Pad(<<5808, 5477, 368, 3372, 922>>)
TwoTo64 == Pad(<<1616, 955, 737, 6744, 1844>>)

NLess(a, b) ==
    \E i \in 1..WideLen :
       a[i] < b[i] /\ \A j \in (i + 1)..WideLen : a[j] = b[j]

RECURSIVE NAddFrom(_, _, _, _)
NAddFrom(a, b, i, carry) ==
    IF i > WideLen THEN <<>>
    ELSE LET t == a[i] + b[i] + carry
         IN <<t % BpDenominator>> \o NAddFrom(a, b, i + 1, t \div BpDenominator)

NAdd(a, b) == NAddFrom(a, b, 1, 0)

RECURSIVE NSubFrom(_, _, _, _)
NSubFrom(a, b, i, borrow) ==
    IF i > WideLen THEN <<>>
    ELSE LET t == a[i] - b[i] - borrow
         IN <<IF t < 0 THEN t + BpDenominator ELSE t>>
               \o NSubFrom(a, b, i + 1, IF t < 0 THEN 1 ELSE 0)

\* a - b for a >= b
NSub(a, b) == NSubFrom(a, b, 1, 0)

RECURSIVE NMulFrom(_, _, _, _)
NMulFrom(a, k, i, carry) ==
    IF i > WideLen THEN <<>>
    ELSE LET t == a[i] * k + carry
         IN <<t % BpDenominator>> \o NMulFrom(a, k, i + 1, t \div BpDenominator)

\* a * k for a natural k of at most 16 bits
NMulSmall(a, k) == NMulFrom(a, k, 1, 0)

\* a divided by BpDenominator, the remainder dropped
NShift(a) == [i \in 1..WideLen |-> IF i < WideLen THEN a[i + 1] ELSE 0]

\* an integer: zero is not negative
Z(neg, mag) == [neg |-> neg /\ mag # NZero, mag |-> mag]

ZOfInt(n) == Z(n < 0, NOfInt(Abs(n)))

ZNeg(x) == Z(~x.neg, x.mag)

ZAdd(x, y) ==
    IF x.neg = y.neg THEN Z(x.neg, NAdd(x.mag, y.mag))
    ELSE IF NLess(x.mag, y.mag) THEN Z(y.neg, NSub(y.mag, x.mag))
    ELSE Z(x.neg, NSub(x.mag, y.mag))

ZLess(x, y) ==
    IF x.neg # y.neg THEN x.neg
    ELSE IF x.neg THEN NLess(y.mag, x.mag)
    ELSE NLess(x.mag, y.mag)

\* checked_mul of a 128-bit value by basis points: a u64 times a 16-bit
\* value never leaves 128 bits, so the result is the product
ZMulSmall(x, k) == Z(x.neg # (k < 0), NMulSmall(x.mag, Abs(k)))

\* checked_div(10000) of a 128-bit value: the quotient truncated toward
\* zero; a division by 10000 never fails
ZTruncDiv(x) == Z(x.neg, NShift(x.mag))

InI64(x) == ~ZLess(x, Z(TRUE, TwoTo63)) /\ ZLess(x, Z(FALSE, TwoTo63))

InU64(x) == ~x.neg /\ NLess(x.mag, TwoTo64)

RECURSIVE WideAsI64(_)
\* `x as i64`: x modulo 2^64, taken in -2^63 .. 2^63 - 1
WideAsI64(x) ==
    IF ZLess(x, Z(TRUE, TwoTo63)) THEN WideAsI64(ZAdd(x, Z(FALSE, TwoTo64)))
    ELSE IF ~ZLess(x, Z(FALSE, TwoTo63))
         THEN WideAsI64(ZAdd(x, Z(TRUE, TwoTo64)))
    ELSE x

RECURSIVE WideAsU64(_)
\* `x as u64`: x modulo 2^64, taken in 0 .. 2^64 - 1
WideAsU64(x) ==
    IF x.neg THEN WideAsU64(ZAdd(x, Z(FALSE, TwoTo64)))
    ELSE IF ~NLess(x.mag, TwoTo64) THEN WideAsU64(ZAdd(x, Z(TRUE, TwoTo64)))
    ELSE x

\* i64::checked_add and i64::checked_sub: None when the result leaves i64
checked_add(a, b) ==
    LET r == ZAdd(a, b) IN [ok |-> InI64(r), v |-> r]

checked_sub(a, b) ==
    LET r == ZAdd(a, ZNeg(b)) IN [ok |-> InI64(r), v |-> r]

\* i64::MIN = -2^63
I64_MIN == Z(TRUE, TwoTo63)

\* `x.abs()` of an i64 (lines 163, 166): the absolute value of i64::MIN
\* overflows, which panics in a build with overflow checks and gives
\* i64::MIN without
AbsI64(x) ==
    IF x = I64_MIN
    THEN {[panic |-> TRUE, v |-> x], [panic |-> FALSE, v |-> x]}
    ELSE {[panic |-> FALSE, v |-> Z(FALSE, x.mag)]}

(***************************************************************************)
(* Records and accounts.                                                   *)
(***************************************************************************)
\* a trade-state record that does not exist (never created, or closed)
NoRecord ==
    [exists |-> FALSE, price |-> 0, mint |-> "none", size |-> 0,
     expiry |-> ZOfInt(0), lamports |-> 0]

OfferRecord(price, size, expiry) ==
    [exists |-> TRUE, price |-> price, mint |-> "m1", size |-> size,
     expiry |-> expiry, lamports |-> OfferRent]

BidRecord(mint, price, size, expiry) ==
    [exists |-> TRUE, price |-> price, mint |-> mint, size |-> size,
     expiry |-> expiry, lamports |-> BidRent]

\* stored expiries, each an i64: the sentinels 0, 1, -1, both signs of
\* 2..MaxExpiry, and i64::MIN
Expiries == {ZOfInt(e) : e \in -MaxExpiry..MaxExpiry} \cup {I64_MIN}

\* the standing offers the listing flow may have left for mint m1
InitOffers ==
    {OfferRecord(AskPrice, 1, e) : e \in Expiries \ {ZOfInt(1), ZOfInt(-1)}}
        \cup {OfferRecord(AskPrice, 2, ZOfInt(0))}

\* the standing bids the bidding flow may have left for buyer b1 on m1
InitBids ==
    {BidRecord("m1", AskPrice, 1, e) : e \in Expiries \ {ZOfInt(0)}}
        \cup {BidRecord("m1", OtherPrice, 1, ZOfInt(0))}

\* buyer b1's deposit: exactly what a settlement at AskPrice takes from the
\* escrow when the taker fee is 100 bp and the creators' shares sum to 500 bp
FullDeposit ==
    AskPrice + (AskPrice * 100) \div BpDenominator
             + (AskPrice * 500) \div BpDenominator
\* buyer b2's deposit covers the price and some, not all, of the other legs
TightDeposit == FullDeposit - 52
\* or it covers neither the price nor the royalties of two creators
ThinDeposit == 500
SellerFunds == 1000
BuyerFunds == 50

\* the request before any of it has been read
NoRequest ==
    [payer |-> "none", buyer |-> "none", mint |-> "none", sts |-> "none",
     bts |-> <<"none", "none">>, notary |-> "none",
     price |-> 0, maker |-> 0, taker |-> 0, now |-> -1]

\* the settlement amounts before they are computed
NoAmounts ==
    [creators |-> <<>>, royalty |-> 0, maker_bp |-> 0, taker_bp |-> 0,
     maker_fee |-> 0, taker_fee |-> 0,
     receipt |-> U64(0), platform |-> U64(0)]

\* the accounts before any settlement: offer o for mint m1, buyer b1's bid
\* b on it, sw lamports in the seller's wallet and d2 in buyer b2's escrow
LedgerWith(o, b, sw, d2) ==
    [wallet |-> [w \in Wallets |->
                   IF w = Seller THEN sw
                   ELSE IF w \in Buyers THEN BuyerFunds ELSE 0],
     escrow |-> [x \in Buyers |->
                   [open |-> TRUE,
                    bal |-> IF x = "b1" THEN FullDeposit ELSE d2,
                    reserve |-> EscrowReserve]],
     offer |-> [m \in Mints |-> IF m = "m1" THEN o ELSE NoRecord],
     bid |-> [k \in BidKeys |->
                IF k = <<"b1", "m1">> THEN b
                ELSE IF k = <<"b2", "m1">>
                     THEN BidRecord("m1", AskPrice, 1, ZOfInt(0))
                ELSE IF k = <<"b2", "m2">>
                     THEN BidRecord("m2", AskPrice, 1, ZOfInt(0))
                ELSE NoRecord],
     owner |-> [m \in Mints |-> IF m = "m1" THEN Seller ELSE Outsider],
     ata |-> [x \in Buyers |-> IF x = "b1" THEN AtaRent ELSE 0]]

Init ==
    /\ \E o \in InitOffers, b \in InitBids, sw \in {0, SellerFunds},
          d2 \in {TightDeposit, ThinDeposit} :
         ledger = LedgerWith(o, b, sw, d2)
    /\ pc = "idle"
    /\ req = NoRequest
    /\ acc = ledger
    /\ err = "none"
    /\ log = <<>>
    /\ amt = NoAmounts
    /\ uses = [offer |-> [m \in Mints |-> 0], bid |-> [k \in BidKeys |-> 0]]

(***************************************************************************)
(* The account references of a request.  payer, buyer, token_mint, the     *)
(* offer record (seller_trade_state, named by the mint it was created      *)
(* for), the bid record (buyer_trade_state) and the notary are chosen by   *)
(* the caller.  The requests drawn have at most one reference wrong, or    *)
(* name the second mint throughout, or have an unauthorized payer or a     *)
(* foreign notary together with any other references.                      *)
(***************************************************************************)
Wrongs(r) ==
      (IF r.payer \notin {r.buyer, Seller} THEN 1 ELSE 0)
    + (IF r.mint # "m1" THEN 1 ELSE 0)
    + (IF r.sts # "m1" THEN 1 ELSE 0)
    + (IF r.bts # <<r.buyer, "m1">> THEN 1 ELSE 0)
    + (IF r.notary # ConfiguredNotary THEN 1 ELSE 0)

RequestAccounts ==
    {r \in [payer : Buyers \cup {Seller, Outsider}, buyer : Buyers,
            mint : Mints, sts : Mints, bts : BidKeys, notary : Notaries] :
        \/ Wrongs(r) <= 1
        \/ /\ r.payer \in {r.buyer, Seller}
           /\ r.mint = "m2" /\ r.sts = "m2" /\ r.bts = <<r.buyer, "m2">>
           /\ r.notary = ConfiguredNotary
        \/ r.payer \notin {r.buyer, Seller}
        \/ r.notary # ConfiguredNotary}

PriceArgs == {0, OtherPrice, AskPrice}
MakerBpArgs == {-32768, -100, -50, 0, 200, MAX_MAKER_FEE_BP + 1}
TakerBpArgs == {0, 100, MAX_TAKER_FEE_BP + 1, 32768, 65535}

\* try_accounts without the constraint of line 60 on the notary
try_accounts_any_notary(r, L) ==
    IF ~L.offer[r.sts].exists THEN "AccountNotInitialized"
    ELSE IF ~(r.payer = r.buyer \/ r.payer = Seller) THEN "SaleRequiresSigner"
    ELSE IF L.owner[r.mint] # Seller THEN "ConstraintRaw"
    ELSE IF r.sts # r.mint THEN "ConstraintSeeds"
    ELSE IF r.bts # <<r.buyer, r.mint>> THEN "ConstraintSeeds"
    ELSE "none"

(***************************************************************************)
(* Account validation (the Accounts struct, lines 23-132).  Every account  *)
(* is loaded first, then the constraints run in the order of the fields.   *)
(* The result is the error code, "none" when all hold.                     *)
(***************************************************************************)
try_accounts(r, L) ==
    \* seller_trade_state: Box<Account<SellerTradeState>> must load (line 79)
    IF ~L.offer[r.sts].exists THEN "AccountNotInitialized"
    \* payer (line 28)
    ELSE IF ~(r.payer = r.buyer \/ r.payer = Seller) THEN "SaleRequiresSigner"
    \* seller_token_ata.amount == 1 (line 46)
    ELSE IF L.owner[r.mint] # Seller THEN "ConstraintRaw"
    \* auction_house.notary == notary.key() (line 60)
    ELSE IF r.notary # ConfiguredNotary THEN "InvalidNotary"
    \* seller_trade_state seeds (lines 70-76)
    ELSE IF r.sts # r.mint THEN "ConstraintSeeds"
    \* buyer_trade_state seeds (lines 83-88)
    ELSE IF r.bts # <<r.buyer, r.mint>> THEN "ConstraintSeeds"
    ELSE "none"

\* escrow_constraints without the lower bound on the maker fee (line 98)
escrow_constraints_no_lower_bound(price, maker, taker, neg) ==
    IF ~(price > 0) THEN "ConstraintRaw"
    ELSE IF ~(maker <= MAX_MAKER_FEE_BP) THEN "InvalidPlatformFeeBp"
    ELSE IF ~(taker <= MAX_TAKER_FEE_BP) THEN "InvalidPlatformFeeBp"
    ELSE "none"

\* escrow_constraints without the bound on the taker fee (line 99)
escrow_constraints_no_taker_max(price, maker, taker, neg) ==
    IF ~(price > 0) THEN "ConstraintRaw"
    ELSE IF ~(maker <= MAX_MAKER_FEE_BP) THEN "InvalidPlatformFeeBp"
    ELSE IF neg.panic THEN "ProgramPanic"
    ELSE IF ~(maker >= neg.v) THEN "InvalidPlatformFeeBp"
    ELSE "none"

\* the constraints of buyer_escrow_payment_account on the arguments (lines
\* 96-99), in their order; neg is the outcome of -(taker_fee_bp as i16)
escrow_constraints(price, maker, taker, neg) ==
    IF ~(price > 0) THEN "ConstraintRaw"
    ELSE IF ~(maker <= MAX_MAKER_FEE_BP) THEN "InvalidPlatformFeeBp"
    ELSE IF neg.panic THEN "ProgramPanic"
    ELSE IF ~(maker >= neg.v) THEN "InvalidPlatformFeeBp"
    ELSE IF ~(taker <= MAX_TAKER_FEE_BP) THEN "InvalidPlatformFeeBp"
    ELSE "none"

\* Propagate with the error dropped: the attempt goes on after a failure
PropagateIgnored(e, next) == next

\* the ? operator and the early returns of handle: an error ends the attempt
Propagate(e, next) == IF e # "none" THEN "failed" ELSE next

\* the error handle returns is the first one raised
Raise(e) == IF err # "none" THEN err ELSE e

\* NextStage with the treasury leg ahead of the escrow-to-seller transfer
NextStageTreasuryFirst(s) ==
    CASE s = "bid_args" -> "expiry"
      [] s = "expiry" -> "metadata"
      [] s = "metadata" -> "unlock"
      [] s = "unlock" -> "init_account"
      [] s = "init_account" -> "transfer"
      [] s = "transfer" -> "royalty"
      [] s = "royalty" -> "fees"
      [] s = "fees" -> "pay_treasury"
      [] s = "pay_treasury" -> "pay_seller"
      [] s = "pay_seller" -> "close_escrow"
      [] s = "close_escrow" -> "close_bid"
      [] s = "close_bid" -> "exit"
      [] s = "exit" -> "done"

\* NextStage with the escrow-to-seller transfer ahead of the royalties
NextStageSellerFirst(s) ==
    CASE s = "bid_args" -> "expiry"
      [] s = "expiry" -> "metadata"
      [] s = "metadata" -> "unlock"
      [] s = "unlock" -> "init_account"
      [] s = "init_account" -> "transfer"
      [] s = "transfer" -> "fees"
      [] s = "fees" -> "pay_seller"
      [] s = "pay_seller" -> "royalty"
      [] s = "royalty" -> "pay_treasury"
      [] s = "pay_treasury" -> "close_escrow"
      [] s = "close_escrow" -> "close_bid"
      [] s = "close_bid" -> "exit"
      [] s = "exit" -> "done"

\* NextStage with the royalties ahead of the custody calls
NextStageRoyaltyFirst(s) ==
    CASE s = "bid_args" -> "expiry"
      [] s = "expiry" -> "metadata"
      [] s = "metadata" -> "royalty"
      [] s = "royalty" -> "unlock"
      [] s = "unlock" -> "init_account"
      [] s = "init_account" -> "transfer"
      [] s = "transfer" -> "fees"
      [] s = "fees" -> "pay_seller"
      [] s = "pay_seller" -> "pay_treasury"
      [] s = "pay_treasury" -> "close_escrow"
      [] s = "close_escrow" -> "close_bid"
      [] s = "close_bid" -> "exit"
      [] s = "exit" -> "done"

\* the order of the statements of handle (lines 153-356): the stage that
\* follows stage s when s raises no error
NextStage(s) ==
    CASE s = "bid_args" -> "expiry"
      [] s = "expiry" -> "metadata"
      [] s = "metadata" -> "unlock"
      [] s = "unlock" -> "init_account"
      [] s = "init_account" -> "transfer"
      [] s = "transfer" -> "royalty"
      [] s = "royalty" -> "fees"
      [] s = "fees" -> "pay_seller"
      [] s = "pay_seller" -> "pay_treasury"
      [] s = "pay_treasury" -> "close_escrow"
      [] s = "close_escrow" -> "close_bid"
      [] s = "close_bid" -> "exit"
      [] s = "exit" -> "done"

(***************************************************************************)
(* The attempt, stage by stage.                                            *)
(***************************************************************************)
\* a transaction arrives: its accounts are loaded and checked
Begin ==
    /\ pc = "idle"
    /\ \E r \in RequestAccounts :
         LET e == try_accounts(r, ledger) IN
         /\ req' = [NoRequest EXCEPT !.payer = r.payer, !.buyer = r.buyer,
                                     !.mint = r.mint, !.sts = r.sts,
                                     !.bts = r.bts, !.notary = r.notary]
         /\ err' = e
         /\ pc' = IF e # "none" THEN "failed" ELSE "args"
    /\ acc' = ledger
    /\ log' = <<>>
    /\ amt' = NoAmounts
    /\ UNCHANGED <<ledger, uses>>

\* the constraints on the instruction's arguments
CheckArgs ==
    /\ pc = "args"
    /\ \E p \in PriceArgs, m \in MakerBpArgs, t \in TakerBpArgs :
         \E neg \in NegI16(AsI16(t)) :
           LET e == escrow_constraints(p, m, t, neg) IN
           /\ req' = [req EXCEPT !.price = p, !.maker = m, !.taker = t]
           /\ err' = e
           /\ pc' = IF e # "none" THEN "failed" ELSE "bid_args"
    /\ UNCHANGED <<ledger, acc, log, amt, uses>>

(***************************************************************************)
(* Offer/bid validation (lines 153-171).                                   *)
(***************************************************************************)
\* BidArgs::from_account_info: the bid record must hold a bid
from_account_info(bid) ==
    IF bid.exists THEN "none" ELSE "AccountNotInitialized"

\* BidArgs::check_args: the bid's price, asset and quantity against the
\* given ones (the referral is compared with itself, lines 155 and 160)
check_args(bid, price, mint, size) ==
    IF bid.price = price /\ bid.mint = mint /\ bid.size = size
    THEN "none" ELSE "InvalidAccountState"

\* Expired with the clock compared to the stored, signed expiry
ExpiredSigned(expiry, abs, now) ==
    ZLess(ZOfInt(1), abs) /\ ZLess(expiry, ZOfInt(now))

\* the conditions of lines 163 and 166, given what expiry.abs() returned:
\* the record has expired at clock reading now
Expired(expiry, abs, now) ==
    ZLess(ZOfInt(1), abs) /\ ZLess(abs, ZOfInt(now))

\* lines 163-165 and 166-169 for one record: a is the outcome of
\* expiry.abs()
expiry_check(expiry, a, now) ==
    IF a.panic THEN "ProgramPanic"
    ELSE IF Expired(expiry, a.v, now) THEN "InvalidExpiry"
    ELSE "none"

\* assert_metadata_valid: the entry is well formed and is the mint's
assert_metadata_valid(meta, mint) ==
    IF meta = mint THEN "none" ELSE "InvalidMetadata"

\* the first error of a sequence of results, "none" when there is none
FirstError(es) ==
    IF \A i \in 1..Len(es) : es[i] = "none" THEN "none"
    ELSE es[CHOOSE i \in 1..Len(es) :
               es[i] # "none" /\ \A j \in 1..(i - 1) : es[j] = "none"]

\* StepBidArgs without the second check_args call (line 160)
StepBidArgsOfferOnly ==
    /\ pc = "bid_args"
    /\ LET bid == acc.bid[req.bts]
           offer == acc.offer[req.sts]
           e == FirstError(<<from_account_info(bid),
                             check_args(bid, offer.price, offer.mint, offer.size)>>)
       IN /\ err' = Raise(e)
          /\ pc' = Propagate(e, NextStage(pc))
    /\ UNCHANGED <<ledger, req, acc, log, amt, uses>>

\* lines 153-160
StepBidArgs ==
    /\ pc = "bid_args"
    /\ LET bid == acc.bid[req.bts]
           offer == acc.offer[req.sts]
           e == FirstError(<<from_account_info(bid),
                             check_args(bid, offer.price, offer.mint, offer.size),
                             check_args(bid, req.price, req.mint, 1)>>)
       IN /\ err' = Raise(e)
          /\ pc' = Propagate(e, NextStage(pc))
    /\ UNCHANGED <<ledger, req, acc, log, amt, uses>>

\* lines 162-169: the bid's expiry is checked first, then the offer's
StepExpiry ==
    /\ pc = "expiry"
    /\ \E now \in 0..MaxTime :
         \E ab \in AbsI64(acc.bid[req.bts].expiry),
            ao \in AbsI64(acc.offer[req.sts].expiry) :
           LET e == FirstError(<<expiry_check(acc.bid[req.bts].expiry, ab, now),
                                 expiry_check(acc.offer[req.sts].expiry, ao, now)>>)
           IN /\ req' = [req EXCEPT !.now = now]
              /\ err' = Raise(e)
              /\ pc' = Propagate(e, NextStage(pc))
    /\ UNCHANGED <<ledger, acc, log, amt, uses>>

\* line 171; the clock reading is not used past this point
StepMetadata ==
    /\ pc = "metadata"
    /\ \E meta \in Mints :
         LET e == assert_metadata_valid(meta, req.mint) IN
         /\ err' = Raise(e)
         /\ pc' = Propagate(e, NextStage(pc))
    /\ req' = [req EXCEPT !.now = -1]
    /\ UNCHANGED <<ledger, acc, log, amt, uses>>

(***************************************************************************)
(* Asset transfer through the custody service (lines 173-233).  Each call  *)
(* either succeeds or fails; the service decides.                          *)
(***************************************************************************)
Event(op, from, to, amount, auth) ==
    [op |-> op, from |-> from, to |-> to, amount |-> amount, auth |-> auth]

EscrowOf(b) == <<"escrow", b>>
Wallet(w) == <<"wallet", w>>

\* lines 173-189: unlock, signed by program_as_signer
StepUnlock ==
    /\ pc = "unlock"
    /\ \E ok \in BOOLEAN :
         LET e == IF ok THEN "none" ELSE "CustodyUnlockFailed" IN
         /\ err' = Raise(e)
         /\ log' = IF ok
                   THEN Append(log, Event("unlock", <<"mint", req.mint>>,
                                          <<"mint", req.mint>>, 0,
                                          "program_as_signer"))
                   ELSE log
         /\ pc' = Propagate(e, NextStage(pc))
    /\ UNCHANGED <<ledger, req, acc, amt, uses>>

\* StepInitAccount without the test of line 191: the receiving account is
\* created whether or not it holds data
StepInitAccountUnconditional ==
    /\ pc = "init_account"
    /\ \E ok \in BOOLEAN :
         LET funded == acc.wallet[req.payer] >= AtaRent
             e == IF ok /\ funded THEN "none" ELSE "CustodyInitFailed"
         IN /\ err' = Raise(e)
            /\ acc' = IF e = "none"
                      THEN [acc EXCEPT !.ata[req.buyer] = AtaRent,
                                       !.wallet[req.payer] = @ - AtaRent]
                      ELSE acc
            /\ log' = IF e = "none"
                      THEN Append(log, Event("init_account", Wallet(req.payer),
                                             <<"ata", req.buyer>>, AtaRent,
                                             "payer"))
                      ELSE log
            /\ pc' = Propagate(e, NextStage(pc))
    /\ UNCHANGED <<ledger, req, amt, uses>>

\* lines 191-210: the buyer's receiving account is created when it holds no
\* data; the payer funds it
StepInitAccount ==
    /\ pc = "init_account"
    /\ IF acc.ata[req.buyer] = 0
       THEN \E ok \in BOOLEAN :
              LET funded == acc.wallet[req.payer] >= AtaRent
                  e == IF ok /\ funded THEN "none" ELSE "CustodyInitFailed"
              IN /\ err' = Raise(e)
                 /\ acc' = IF e = "none"
                           THEN [acc EXCEPT !.ata[req.buyer] = AtaRent,
                                            !.wallet[req.payer] = @ - AtaRent]
                           ELSE acc
                 /\ log' = IF e = "none"
                           THEN Append(log, Event("init_account", Wallet(req.payer),
                                                  <<"ata", req.buyer>>, AtaRent,
                                                  "payer"))
                           ELSE log
                 /\ pc' = Propagate(e, NextStage(pc))
       ELSE /\ pc' = NextStage(pc)
            /\ UNCHANGED <<err, acc, log>>
    /\ UNCHANGED <<ledger, req, amt, uses>>

\* lines 212-233: transfer from the seller's account to the buyer's, signed
\* by program_as_signer
StepTransfer ==
    /\ pc = "transfer"
    /\ \E ok \in BOOLEAN :
         LET e == IF ok THEN "none" ELSE "CustodyTransferFailed" IN
         /\ err' = Raise(e)
         /\ acc' = IF ok THEN [acc EXCEPT !.owner[req.mint] = req.buyer] ELSE acc
         /\ log' = IF ok
                   THEN Append(log, Event("asset_transfer", <<"ata", Seller>>,
                                          <<"ata", req.buyer>>, 1,
                                          "program_as_signer"))
                   ELSE log
         /\ pc' = Propagate(e, NextStage(pc))
    /\ UNCHANGED <<ledger, req, amt, uses>>

(***************************************************************************)
(* Fund movements.                                                         *)
(***************************************************************************)
\* the spendable balance of an escrow account or a wallet
Balance(A, ref) ==
    IF ref[1] = "escrow" THEN A.escrow[ref[2]].bal ELSE A.wallet[ref[2]]

\* system_instruction::transfer of a u64 amount into a wallet: it fails when
\* the source holds less than the amount, and then moves nothing
SystemTransfer(A, from, to, a) ==
    IF a.wrapped \/ a.v > Balance(A, from)
    THEN [ok |-> FALSE, acc |-> A]
    ELSE [ok |-> TRUE,
          acc |-> IF from[1] = "escrow"
                  THEN [A EXCEPT !.escrow[from[2]].bal = @ - a.v,
                                 !.wallet[to] = @ + a.v]
                  ELSE IF from[2] = to THEN A
                  ELSE [A EXCEPT !.wallet[from[2]] = @ - a.v,
                                 !.wallet[to] = @ + a.v]]

(***************************************************************************)
(* Royalties (lines 242-253).                                              *)
(***************************************************************************)
\* the creator lists the metadata entry or the policy may hold
CreatorLists ==
    {<<>>,
     <<[who |-> "c1", bps |-> 500], [who |-> "c2", bps |-> 0]>>,
     <<[who |-> "c1", bps |-> 300], [who |-> "c2", bps |-> 200]>>}

NoOverride == [present |-> FALSE, list |-> <<>>]
PolicyOverrides ==
    {NoOverride,
     [present |-> TRUE, list |-> <<[who |-> "c2", bps |-> 400]>>]}

\* the policy's royalty override, when present, replaces the metadata's list
effective_creators(meta_list, policy) ==
    IF policy.present THEN policy.list ELSE meta_list

RECURSIVE pay_from(_, _, _, _, _)
\* creators i.. of the list are paid price * bps / denominator each out of
\* buyer b's escrow; st carries the accounts, the log, the total, the error
pay_from(st, creators, i, b, price) ==
    IF i > Len(creators) \/ st.err # "none" THEN st
    ELSE LET c == creators[i]
             a == (price * c.bps) \div BpDenominator
             t == SystemTransfer(st.acc, EscrowOf(b), c.who, U64(a))
         IN IF c.bps = 0 THEN pay_from(st, creators, i + 1, b, price)
            ELSE IF ~t.ok
                 THEN [st EXCEPT !.err = "RoyaltyPaymentFailed"]
            ELSE pay_from([acc |-> t.acc,
                           log |-> Append(st.log,
                                          Event("royalty", EscrowOf(b),
                                                Wallet(c.who), a, "escrow_seeds")),
                           total |-> st.total + a,
                           err |-> "none"],
                          creators, i + 1, b, price)

pay_creator_fees(A, L, creators, b, price) ==
    pay_from([acc |-> A, log |-> L, total |-> 0, err |-> "none"],
             creators, 1, b, price)

\* StepRoyalty without the ? of line 253: a failed payment is passed over
StepRoyaltyUnchecked ==
    /\ pc = "royalty"
    /\ \E ml \in CreatorLists, po \in PolicyOverrides :
         LET r == pay_creator_fees(acc, log, effective_creators(ml, po),
                                   req.buyer, req.price)
         IN /\ err' = Raise(r.err)
            /\ acc' = r.acc
            /\ log' = r.log
            /\ amt' = [amt EXCEPT !.creators = effective_creators(ml, po),
                                  !.royalty = r.total]
            /\ pc' = NextStage(pc)
    /\ UNCHANGED <<ledger, req, uses>>

\* lines 242-253
StepRoyalty ==
    /\ pc = "royalty"
    /\ \E ml \in CreatorLists, po \in PolicyOverrides :
         LET r == pay_creator_fees(acc, log, effective_creators(ml, po),
                                   req.buyer, req.price)
         IN /\ err' = Raise(r.err)
            /\ acc' = r.acc
            /\ log' = r.log
            /\ amt' = [amt EXCEPT !.creators = effective_creators(ml, po),
                                  !.royalty = IF r.err = "none" THEN r.total ELSE 0]
            /\ pc' = Propagate(r.err, NextStage(pc))
    /\ UNCHANGED <<ledger, req, uses>>

(***************************************************************************)
(* Fees (lines 264-287).                                                   *)
(***************************************************************************)
\* what the notary may ask for when it signs
NotaryPrefs ==
    {[maker |-> 0, taker |-> 0],
     [maker |-> -300, taker |-> 100],
     [maker |-> 200, taker |-> 100]}

\* get_actual_maker_taker_fee_bp: a signing notary's preferences replace
\* the caller's basis points; otherwise the caller's stand
get_actual_maker_taker_fee_bp(signs, pref, maker, taker) ==
    IF signs THEN <<pref.maker, pref.taker>> ELSE <<maker, taker>>

\* maker_fee with the basis points taken as unsigned
maker_fee_unsigned(price, bp) == TruncDiv(price * Abs(bp), BpDenominator)

\* lines 266-270
maker_fee(price, bp) == TruncDiv(price * bp, BpDenominator)

\* lines 271-275
taker_fee(price, bp) == (price * bp) \div BpDenominator

\* seller_will_get_from_buyer with the two branches exchanged
seller_will_get_swapped(payerIsSeller, price, mf) ==
    AsU64(IF payerIsSeller THEN price - mf ELSE price + mf)

\* lines 276-284
seller_will_get_from_buyer(payerIsSeller, price, mf) ==
    AsU64(IF payerIsSeller THEN price + mf ELSE price - mf)

\* lines 285-287
total_platform_fee(mf, tf) == AsU64(mf + tf)

\* lines 264-287.  Amounts of the model stay far below 2^63, where none of
\* the checked operations overflows.
StepFees ==
    /\ pc = "fees"
    /\ \E signs \in BOOLEAN, pref \in NotaryPrefs :
         LET bp == get_actual_maker_taker_fee_bp(signs, pref, req.maker, req.taker)
             mf == maker_fee(req.price, bp[1])
             tf == taker_fee(req.price, bp[2])
         IN amt' = [amt EXCEPT
                      !.maker_bp = bp[1], !.taker_bp = bp[2],
                      !.maker_fee = mf, !.taker_fee = tf,
                      !.receipt = seller_will_get_from_buyer(req.payer = Seller,
                                                             req.price, mf),
                      !.platform = total_platform_fee(mf, tf)]
    /\ pc' = NextStage(pc)
    /\ UNCHANGED <<ledger, req, acc, err, log, uses>>

(***************************************************************************)
(* Settlement transfers (lines 289-332).                                   *)
(***************************************************************************)
\* lines 289-301: escrow to seller, signed with the escrow's seeds
StepPaySeller ==
    /\ pc = "pay_seller"
    /\ LET t == SystemTransfer(acc, EscrowOf(req.buyer), Seller, amt.receipt)
           e == IF t.ok THEN "none" ELSE "SellerTransferFailed"
       IN /\ err' = Raise(e)
          /\ acc' = t.acc
          /\ log' = IF t.ok
                    THEN Append(log, Event("seller", EscrowOf(req.buyer),
                                           Wallet(Seller), amt.receipt.v,
                                           "escrow_seeds"))
                    ELSE log
          /\ pc' = Propagate(e, NextStage(pc))
    /\ UNCHANGED <<ledger, req, amt, uses>>

\* treasury_source with the escrow debited whoever the payer is
treasury_source_escrow(payer, buyer) ==
    [from |-> EscrowOf(buyer), auth |-> "escrow_seeds"]

\* lines 304-331: who funds the treasury leg and how it is authorized: the
\* payer's own signature when the payer is the seller (invoke), the escrow's
\* seeds otherwise (invoke_signed)
treasury_source(payer, buyer) ==
    IF payer = Seller
    THEN [from |-> Wallet(payer), auth |-> "payer"]
    ELSE [from |-> EscrowOf(buyer), auth |-> "escrow_seeds"]

\* lines 303-332: the platform fee, skipped when it is zero
StepPayTreasury ==
    /\ pc = "pay_treasury"
    /\ IF IsPositive(amt.platform)
       THEN LET src == treasury_source(req.payer, req.buyer)
                from == src.from
                auth == src.auth
                t == SystemTransfer(acc, from, Treasury, amt.platform)
                e == IF t.ok THEN "none" ELSE "TreasuryTransferFailed"
            IN /\ err' = Raise(e)
               /\ acc' = t.acc
               /\ log' = IF t.ok
                         THEN Append(log, Event("treasury", from, Wallet(Treasury),
                                                amt.platform.v, auth))
                         ELSE log
               /\ pc' = Propagate(e, NextStage(pc))
       ELSE /\ pc' = NextStage(pc)
            /\ UNCHANGED <<err, acc, log>>
    /\ UNCHANGED <<ledger, req, amt, uses>>

(***************************************************************************)
(* Lifecycle (lines 334-345 and the close = seller of line 69).            *)
(***************************************************************************)
\* try_close_buyer_escrow: an escrow left at zero balance is closed and its
\* reserve goes to the buyer; any other escrow is left as it is
try_close_buyer_escrow(A, b) ==
    IF A.escrow[b].bal = 0 /\ A.escrow[b].open
    THEN [A EXCEPT !.wallet[b] = @ + A.escrow[b].reserve,
                   !.escrow[b] = [open |-> FALSE, bal |-> 0, reserve |-> 0]]
    ELSE A

\* StepCloseEscrow without the call of lines 334-339
StepCloseEscrowSkipped ==
    /\ pc = "close_escrow"
    /\ pc' = NextStage(pc)
    /\ UNCHANGED <<ledger, req, acc, err, log, amt, uses>>

\* lines 334-339
StepCloseEscrow ==
    /\ pc = "close_escrow"
    /\ LET A == try_close_buyer_escrow(acc, req.buyer) IN
       IF A # acc
       THEN \E ok \in BOOLEAN :
              LET e == IF ok THEN "none" ELSE "EscrowCloseFailed" IN
              /\ err' = Raise(e)
              /\ acc' = IF ok THEN A ELSE acc
              /\ log' = IF ok
                        THEN Append(log, Event("close_escrow", EscrowOf(req.buyer),
                                               Wallet(req.buyer),
                                               acc.escrow[req.buyer].reserve,
                                               "escrow_seeds"))
                        ELSE log
              /\ pc' = Propagate(e, NextStage(pc))
       ELSE /\ pc' = NextStage(pc)
            /\ UNCHANGED <<err, acc, log>>
    /\ UNCHANGED <<ledger, req, amt, uses>>

\* close_account_anchor: the record is cleared and destroyed, its balance
\* goes to the buyer
close_account_anchor(A, key, b) ==
    [A EXCEPT !.wallet[b] = @ + A.bid[key].lamports,
              !.bid[key] = NoRecord]

\* StepCloseBid without the assignment of line 342: the offer's quantity is
\* left as it was
StepCloseBidNoZero ==
    /\ pc = "close_bid"
    /\ \E ok \in BOOLEAN :
         LET e == IF ok THEN "none" ELSE "BidCloseFailed"
         IN /\ err' = Raise(e)
            /\ acc' = IF ok THEN close_account_anchor(acc, req.bts, req.buyer) ELSE acc
            /\ log' = IF ok
                      THEN Append(log, Event("close_bid", <<"bid", req.buyer>>,
                                             Wallet(req.buyer),
                                             acc.bid[req.bts].lamports, "program"))
                      ELSE log
            /\ pc' = Propagate(e, NextStage(pc))
    /\ UNCHANGED <<ledger, req, amt, uses>>

\* StepCloseBid without the call of line 345: the offer's quantity is
\* zeroed and the bid record is left as it was
StepCloseBidNotClosed ==
    /\ pc = "close_bid"
    /\ acc' = [acc EXCEPT !.offer[req.sts].size = 0]
    /\ pc' = NextStage(pc)
    /\ UNCHANGED <<ledger, req, err, log, amt, uses>>

\* lines 341-345: the offer's quantity is zeroed, then the bid is closed
StepCloseBid ==
    /\ pc = "close_bid"
    /\ \E ok \in BOOLEAN :
         LET zeroed == [acc EXCEPT !.offer[req.sts].size = 0]
             e == IF ok THEN "none" ELSE "BidCloseFailed"
         IN /\ err' = Raise(e)
            /\ acc' = IF ok
                      THEN close_account_anchor(zeroed, req.bts, req.buyer)
                      ELSE zeroed
            /\ log' = IF ok
                      THEN Append(log, Event("close_bid", <<"bid", req.buyer>>,
                                             Wallet(req.buyer),
                                             acc.bid[req.bts].lamports, "program"))
                      ELSE log
            /\ pc' = Propagate(e, NextStage(pc))
    /\ UNCHANGED <<ledger, req, amt, uses>>

\* StepExit for a seller_trade_state declared without mut and close: neither
\* the zeroed quantity nor the closure reaches the ledger
StepExitNotPersisted ==
    /\ pc = "exit"
    /\ acc' = [acc EXCEPT !.offer[req.sts] = ledger.offer[req.sts]]
    /\ log' = log
    /\ pc' = NextStage(pc)
    /\ UNCHANGED <<ledger, req, err, amt, uses>>

\* handle has returned Ok (line 356): the accounts are written back, and
\* seller_trade_state, declared mut with close = seller (lines 67-79), is
\* destroyed with its balance going to the seller
StepExit ==
    /\ pc = "exit"
    /\ acc' = [acc EXCEPT !.wallet[Seller] = @ + acc.offer[req.sts].lamports,
                          !.offer[req.sts] = NoRecord]
    /\ log' = Append(log, Event("close_offer", <<"offer", req.sts>>,
                                Wallet(Seller), acc.offer[req.sts].lamports,
                                "program"))
    /\ pc' = NextStage(pc)
    /\ UNCHANGED <<ledger, req, err, amt, uses>>

(***************************************************************************)
(* The ledger around the instruction.                                      *)
(***************************************************************************)
\* the transaction ends: a successful attempt's accounts become the ledger's,
\* a failed attempt's are dropped
Finish ==
    /\ pc \in {"done", "failed"}
    /\ ledger' = IF pc = "done" THEN acc ELSE ledger
    /\ uses' = IF pc = "done"
               THEN [uses EXCEPT !.offer[req.sts] = @ + 1, !.bid[req.bts] = @ + 1]
               ELSE uses
    /\ acc' = ledger'
    /\ pc' = "idle"
    /\ req' = NoRequest
    /\ err' = "none"
    /\ log' = <<>>
    /\ amt' = NoAmounts

\* outside this instruction, a buyer who holds the asset sends it back to
\* the seller's token account
ReturnAsset ==
    /\ pc = "idle"
    /\ ledger.owner["m1"] \in Buyers
    /\ ledger' = [ledger EXCEPT !.owner["m1"] = Seller]
    /\ acc' = ledger'
    /\ UNCHANGED <<pc, req, err, log, amt, uses>>

\* outside this instruction, the seller who holds the asset again lists it
\* again: a new offer record is created at the address of the destroyed one
\* and the seller pays its rent.  No settlement has referenced the new
\* record.  A second listing is followed only after a sale that paid neither
\* fee nor royalty: no step of an attempt reads the balance of the treasury
\* or of a creator, so the attempts on the new record go the same way after
\* any other sale.
Relist ==
    /\ pc = "idle"
    /\ ~ledger.offer["m1"].exists
    /\ ledger.owner["m1"] = Seller
    /\ ledger.wallet[Seller] >= OfferRent
    /\ \A w \in Creators \cup {Treasury} : ledger.wallet[w] = 0
    /\ ledger' = [ledger EXCEPT !.offer["m1"] = OfferRecord(AskPrice, 1, ZOfInt(0)),
                                !.wallet[Seller] = @ - OfferRent]
    /\ acc' = ledger'
    /\ uses' = [uses EXCEPT !.offer["m1"] = 0]
    /\ UNCHANGED <<pc, req, err, log, amt>>

Next ==
    \/ Begin
    \/ CheckArgs
    \/ StepBidArgs
    \/ StepExpiry
    \/ StepMetadata
    \/ StepUnlock
    \/ StepInitAccount
    \/ StepTransfer
    \/ StepRoyalty
    \/ StepFees
    \/ StepPaySeller
    \/ StepPayTreasury
    \/ StepCloseEscrow
    \/ StepCloseBid
    \/ StepExit
    \/ Finish
    \/ ReturnAsset
    \/ Relist

Spec == Init /\ [][Next]_vars

(***************************************************************************)
(* The fee computation on its own: lines 264-287 applied to prices and     *)
(* basis points drawn from bounded sets.                                   *)
(***************************************************************************)
\* prices 0..MaxFeePrice are drawn, and the prices of the scenarios
MaxFeePrice == 30
FeePrices == (0..MaxFeePrice) \cup {OtherPrice, AskPrice, 1000000}
FeeMakerBps == {-500, -200, -100, -50, -1, 0, 1, 50, 200, 500}
FeeTakerBps == {0, 1, 100, 250, 500}

FeeInit ==
    /\ ledger = LedgerWith(OfferRecord(AskPrice, 1, ZOfInt(0)),
                           BidRecord("m1", AskPrice, 1, ZOfInt(0)), SellerFunds,
                           TightDeposit)
    /\ pc = "fees"
    /\ \E payer \in {Seller, "b1"}, p \in FeePrices,
          m \in FeeMakerBps, t \in FeeTakerBps :
         req = [NoRequest EXCEPT !.payer = payer, !.buyer = "b1",
                                 !.mint = "m1", !.sts = "m1",
                                 !.bts = <<"b1", "m1">>,
                                 !.notary = ConfiguredNotary,
                                 !.price = p, !.maker = m, !.taker = t]
    /\ acc = ledger
    /\ err = "none"
    /\ log = <<>>
    /\ amt = NoAmounts
    /\ uses = [offer |-> [m \in Mints |-> 0], bid |-> [k \in BidKeys |-> 0]]

FeeNext == StepFees

FeeSpec == FeeInit /\ [][FeeNext]_vars

(***************************************************************************)
(* The fee computation at the widths of the source (lines 266-287), and    *)
(* the two transfers that use its results (lines 289-332).                 *)
(***************************************************************************)
\* lines 266-270
maker_fee_i128(price, bp) == WideAsI64(ZTruncDiv(ZMulSmall(price, bp)))

\* lines 271-275
taker_fee_u128(price, bp) == WideAsU64(ZTruncDiv(ZMulSmall(price, bp)))

\* lines 276-284: `args.price as i64`, checked_add or checked_sub of the
\* maker fee, and the result `as u64`
seller_will_get_checked(payerIsSeller, price, mf) ==
    LET r == IF payerIsSeller
             THEN checked_add(WideAsI64(price), mf)
             ELSE checked_sub(WideAsI64(price), mf)
    IN [ok |-> r.ok, v |-> WideAsU64(r.v)]

\* lines 285-287
total_platform_fee_checked(mf, tf) ==
    LET r == checked_add(mf, WideAsI64(tf))
    IN [ok |-> r.ok, v |-> WideAsU64(r.v)]

\* largest offset added to each price drawn
MaxWideOffset == 3

\* the prices drawn: small ones, the two sides of 2^63, the least price whose
\* sum with a one-basis-point fee reaches 2^64, and the top of u64
WidePriceBases ==
    {NOfInt(0), NOfInt(1000000), NOfInt(AskPrice),
     NSub(TwoTo63, NOfInt(MaxWideOffset + 1)),
     Pad(<<6499, 5117, 5837, 4899, 1844>>),
     NSub(TwoTo64, NOfInt(MaxWideOffset + 1))}

WidePrices ==
    {Z(FALSE, NAdd(b, NOfInt(k))) : b \in WidePriceBases, k \in 0..MaxWideOffset}

\* basis points that pass the constraints of lines 97-99
WideMakerBps == {-MAX_MAKER_FEE_BP, -1, 0, 1, 200, MAX_MAKER_FEE_BP}
WideTakerBps == {0, 1, 100, MAX_TAKER_FEE_BP}

\* lamports in the buyer's escrow and in the seller's wallet
WideDeposit == 100
WideSellerFunds == 10

WideInit ==
    /\ ledger = [escrow |-> ZOfInt(WideDeposit), seller |-> ZOfInt(WideSellerFunds),
                 treasury |-> ZOfInt(0)]
    /\ pc = "wide_fees"
    /\ \E payer \in {Seller, "b1"}, p \in WidePrices,
          m \in WideMakerBps, t \in WideTakerBps :
         /\ m >= -t
         /\ req = [NoRequest EXCEPT !.payer = payer, !.buyer = "b1",
                                    !.mint = "m1", !.sts = "m1",
                                    !.bts = <<"b1", "m1">>,
                                    !.notary = ConfiguredNotary,
                                    !.price = p, !.maker = m, !.taker = t]
    /\ acc = ledger
    /\ err = "none"
    /\ log = <<>>
    /\ amt = NoAmounts
    /\ uses = [offer |-> [m \in Mints |-> 0], bid |-> [k \in BidKeys |-> 0]]

\* lines 264-287: the caller's basis points stand; the first checked
\* operation that fails returns NumericalOverflow
WideFees ==
    /\ pc = "wide_fees"
    /\ LET mf == maker_fee_i128(req.price, req.maker)
           tf == taker_fee_u128(req.price, req.taker)
           sg == seller_will_get_checked(req.payer = Seller, req.price, mf)
           pf == total_platform_fee_checked(mf, tf)
           e == IF sg.ok /\ pf.ok THEN "none" ELSE "NumericalOverflow"
       IN /\ amt' = [amt EXCEPT !.maker_bp = req.maker, !.taker_bp = req.taker,
                                !.maker_fee = mf, !.taker_fee = tf,
                                !.receipt = sg.v, !.platform = pf.v]
          /\ err' = Raise(e)
          /\ pc' = Propagate(e, "wide_pay_seller")
    /\ UNCHANGED <<ledger, req, acc, log, uses>>

\* lines 289-301 on wide balances
WidePaySeller ==
    /\ pc = "wide_pay_seller"
    /\ LET ok == ~ZLess(acc.escrow, amt.receipt)
           e == IF ok THEN "none" ELSE "SellerTransferFailed"
       IN /\ err' = Raise(e)
          /\ acc' = IF ok
                    THEN [acc EXCEPT !.escrow = ZAdd(@, ZNeg(amt.receipt)),
                                     !.seller = ZAdd(@, amt.receipt)]
                    ELSE acc
          /\ log' = IF ok
                    THEN Append(log, Event("seller", EscrowOf(req.buyer),
                                           Wallet(Seller), amt.receipt,
                                           "escrow_seeds"))
                    ELSE log
          /\ pc' = Propagate(e, "wide_pay_treasury")
    /\ UNCHANGED <<ledger, req, amt, uses>>

\* lines 303-332 on wide balances
WidePayTreasury ==
    /\ pc = "wide_pay_treasury"
    /\ IF amt.platform # Z(FALSE, NZero)
       THEN LET src == treasury_source(req.payer, req.buyer)
                bal == IF src.from = Wallet(Seller) THEN acc.seller ELSE acc.escrow
                ok == ~ZLess(bal, amt.platform)
                e == IF ok THEN "none" ELSE "TreasuryTransferFailed"
            IN /\ err' = Raise(e)
               /\ acc' = IF ~ok THEN acc
                         ELSE IF src.from = Wallet(Seller)
                         THEN [acc EXCEPT !.seller = ZAdd(@, ZNeg(amt.platform)),
                                          !.treasury = ZAdd(@, amt.platform)]
                         ELSE [acc EXCEPT !.escrow = ZAdd(@, ZNeg(amt.platform)),
                                          !.treasury = ZAdd(@, amt.platform)]
               /\ log' = IF ok
                         THEN Append(log, Event("treasury", src.from,
                                                Wallet(Treasury), amt.platform,
                                                src.auth))
                         ELSE log
               /\ pc' = Propagate(e, "wide_done")
       ELSE /\ pc' = "wide_done"
            /\ UNCHANGED <<err, acc, log>>
    /\ UNCHANGED <<ledger, req, amt, uses>>

WideNext ==
    \/ WideFees
    \/ WidePaySeller
    \/ WidePayTreasury

WideSpec == WideInit /\ [][WideNext]_vars

(***************************************************************************)
(* Properties.                                                             *)
(***************************************************************************)
\* C1: a settlement attempt is all-or-nothing.  While an attempt runs the
\* ledger is untouched, and an attempt in which any step has failed ends
\* with every balance, the asset's owner and the offer and bid records
\* exactly as they were before it.
C1_AllOrNothing ==
    [][(pc # "idle" /\ (err # "none" \/ pc' # "idle")) => ledger' = ledger]_vars

\* an attempt failed at the treasury leg after the asset and funds had moved
C1_Witness ==
    /\ pc = "failed"
    /\ err = "TreasuryTransferFailed"
    /\ acc.owner[req.mint] = req.buyer
    /\ ledger.owner[req.mint] = Seller
    /\ acc.wallet[Seller] > ledger.wallet[Seller]

\* C2: over any sequence of attempts at most one attempt that references a
\* given offer record or a given bid record succeeds, and every attempt that
\* references a consumed record fails without effect: one that names a
\* consumed offer fails when the accounts are loaded, and one that names a
\* consumed bid with a live offer gets no further than the reading of the
\* bid, where it fails.
C2_AtMostOnce ==
    /\ \A m \in Mints : uses.offer[m] <= 1
    /\ \A k \in BidKeys : uses.bid[k] <= 1
    /\ (pc # "idle" /\ uses.offer[req.sts] > 0)
          => pc = "failed" /\ err = "AccountNotInitialized"
    /\ (pc # "idle" /\ uses.bid[req.bts] > 0)
          => /\ pc \in {"args", "bid_args", "failed"}
             /\ acc = ledger
             /\ log = <<>>

\* after a sale to buyer b1 the asset went back to the seller, who listed it
\* again; a replay with b1's consumed bid against the new offer, with the
\* arguments of the first sale, has failed at the reading of the bid
C2_Witness ==
    /\ pc = "failed"
    /\ err = "AccountNotInitialized"
    /\ uses.offer["m1"] = 0
    /\ uses.bid[<<"b1", "m1">>] = 1
    /\ req.sts = "m1"
    /\ req.bts = <<"b1", "m1">>
    /\ req.price = AskPrice
    /\ ledger.offer["m1"].exists
    /\ ledger.owner["m1"] = Seller

RECURSIVE SumOver(_, _)
\* the sum of f over the finite set S
SumOver(f, S) ==
    IF S = {} THEN 0
    ELSE LET x == CHOOSE y \in S : TRUE IN f[x] + SumOver(f, S \ {x})

\* every lamport of the accounts A: wallets, escrows with their reserves,
\* the records' rent and the receiving accounts' rent
TotalLamports(A) ==
      SumOver(A.wallet, Wallets)
    + SumOver([b \in Buyers |-> A.escrow[b].bal + A.escrow[b].reserve], Buyers)
    + SumOver([m \in Mints |-> A.offer[m].lamports], Mints)
    + SumOver([k \in BidKeys |-> A.bid[k].lamports], BidKeys)
    + SumOver(A.ata, Buyers)

\* what the attempt has taken out of the buyer's escrow balance so far
EscrowDebit == ledger.escrow[req.buyer].bal - acc.escrow[req.buyer].bal

\* what the payer has paid for the buyer's receiving account
AtaCost == acc.ata[req.buyer] - ledger.ata[req.buyer]

\* the seller's gain from the sale itself: the change of the seller's wallet
\* without the offer record's refunded rent and, when the seller is the
\* payer, without the cost of the buyer's receiving account
SellerNet ==
    acc.wallet[Seller] - ledger.wallet[Seller]
        - (ledger.offer[req.sts].lamports - acc.offer[req.sts].lamports)
        + (IF req.payer = Seller THEN AtaCost ELSE 0)

\* the positions in the log of the events of the kinds ops
EventsOf(ops) == {i \in DOMAIN log : log[i].op \in ops}

\* C3: for every successful settlement the amounts balance exactly.  With
\* the buyer as payer the escrow is debited royalty + seller_receipt +
\* platform_fee = price + taker_fee + royalty and the seller nets price -
\* maker_fee; with the seller as payer the escrow is debited price +
\* maker_fee + royalty, the seller pays maker_fee + taker_fee to the
\* treasury and nets price - taker_fee; the creators receive the royalty;
\* the sum of all balance changes is zero.
C3_AmountsBalance ==
    pc = "done" =>
      /\ ~amt.receipt.wrapped /\ ~amt.platform.wrapped
      /\ SumOver(acc.wallet, Creators) - SumOver(ledger.wallet, Creators)
            = amt.royalty
      /\ acc.wallet[Treasury] - ledger.wallet[Treasury] = amt.platform.v
      /\ amt.platform.v = amt.maker_fee + amt.taker_fee
      /\ IF req.payer = Seller
         THEN /\ EscrowDebit = req.price + amt.maker_fee + amt.royalty
              /\ SellerNet = req.price - amt.taker_fee
         ELSE /\ EscrowDebit = amt.royalty + amt.receipt.v + amt.platform.v
              /\ EscrowDebit = req.price + amt.taker_fee + amt.royalty
              /\ SellerNet = req.price - amt.maker_fee
      /\ TotalLamports(acc) = TotalLamports(ledger)

\* a settlement paid by the seller, with a maker rebate, a platform fee and
\* a royalty, has succeeded
C3_Witness ==
    /\ pc = "done"
    /\ req.payer = Seller
    /\ amt.maker_fee < 0
    /\ amt.platform.v > 0
    /\ amt.royalty > 0

\* C4: for every price and resolved basis points, seller_receipt is price +
\* maker_fee when the payer is the seller and price - maker_fee when the
\* payer is the buyer, platform_fee is maker_fee + taker_fee, and each fee is
\* the price times its basis points over 10000 less a fraction below one;
\* price 1,000,000 with maker 200 bp and taker 100 bp gives maker_fee
\* 20,000, taker_fee 10,000, platform_fee 30,000 and seller_receipt
\* 1,020,000 (payer the seller) or 980,000 (payer the buyer).
C4_FeeFormulas ==
    pc = "pay_seller" =>
      /\ amt.receipt.v = IF req.payer = Seller
                         THEN req.price + amt.maker_fee
                         ELSE req.price - amt.maker_fee
      /\ amt.platform.v = amt.maker_fee + amt.taker_fee
      /\ amt.receipt.wrapped <=> amt.receipt.v < 0
      /\ amt.platform.wrapped <=> amt.platform.v < 0
      /\ Abs(amt.maker_fee * 10000 - req.price * amt.maker_bp) < 10000
      /\ Abs(amt.taker_fee * 10000 - req.price * amt.taker_bp) < 10000
      /\ (req.price = 1000000 /\ amt.maker_bp = 200 /\ amt.taker_bp = 100) =>
           /\ amt.maker_fee = 20000
           /\ amt.taker_fee = 10000
           /\ amt.platform = U64(30000)
           /\ amt.receipt = U64(IF req.payer = Seller THEN 1020000 ELSE 980000)

\* the scenario with the seller as payer has been computed
C4_Witness ==
    /\ pc = "pay_seller"
    /\ req.price = 1000000
    /\ req.payer = Seller
    /\ amt.maker_bp = 200 /\ amt.taker_bp = 100
    /\ amt.receipt = U64(1020000)

\* an expiry that is no sentinel and whose absolute value is below now
Elapsed(e, now) ==
    /\ e \notin {ZOfInt(0), ZOfInt(1), ZOfInt(-1)}
    /\ ZLess(Z(FALSE, e.mag), ZOfInt(now))

\* the outcomes of the check of one record with expiry e at clock reading now
ExpiryOutcomes(e, now) == {expiry_check(e, a, now) : a \in AbsI64(e)}

\* C5: for the offer record and for the bid record, an expiry of 0, 1 or -1
\* never causes rejection whatever the clock reads (a rejection for expiry
\* always comes from a record with another expiry, whose absolute value is
\* below the clock); any other expiry whose absolute value is below the
\* clock always causes rejection with no effects, with InvalidExpiry unless
\* the absolute value of an expiry of i64::MIN has overflowed and panicked
\* first; the sign of the stored expiry does not change the outcome.
C5_Expiry ==
    /\ pc = "expiry" =>
         \A e \in {acc.bid[req.bts].expiry, acc.offer[req.sts].expiry} \ {I64_MIN},
            now \in 0..(MaxTime + 1) :
           /\ ExpiryOutcomes(e, now) = ExpiryOutcomes(ZNeg(e), now)
           /\ ExpiryOutcomes(e, now)
                 = {IF Elapsed(e, now) THEN "InvalidExpiry" ELSE "none"}
    /\ (pc # "idle" /\ req.now # -1) =>
         LET es == {ledger.bid[req.bts].expiry, ledger.offer[req.sts].expiry}
         IN /\ (\E e \in es : Elapsed(e, req.now)) =>
                 /\ pc = "failed"
                 /\ err \in {"InvalidExpiry", "ProgramPanic"}
                 /\ I64_MIN \notin es => err = "InvalidExpiry"
                 /\ acc = ledger
                 /\ log = <<>>
            /\ err = "InvalidExpiry" => \E e \in es : Elapsed(e, req.now)
            /\ err = "ProgramPanic" => I64_MIN \in es
            /\ err \in {"none", "InvalidExpiry", "ProgramPanic"}
            /\ err = "none" => pc = "metadata"

\* the bid's expiry is the sentinel -1, the offer's is negative and has
\* elapsed: rejected
C5_Witness ==
    /\ pc = "failed"
    /\ err = "InvalidExpiry"
    /\ ledger.bid[req.bts].expiry = ZOfInt(-1)
    /\ ZLess(ledger.offer[req.sts].expiry, ZOfInt(-1))
    /\ ledger.offer[req.sts].expiry # I64_MIN
    /\ req.now > 1

\* basis points outside the range the constraints declare
BadBp(m, t) == m > MAX_MAKER_FEE_BP \/ m < -t \/ t > MAX_TAKER_FEE_BP

\* C6: a request whose maker_fee_bp is above the configured maximum or below
\* the negative of taker_fee_bp, or whose taker_fee_bp is above its maximum,
\* is always rejected before any asset or fund movement, for every signed
\* 16-bit maker_fee_bp and unsigned 16-bit taker_fee_bp drawn; the error is
\* InvalidPlatformFeeBp unless the constraint on the price, declared ahead
\* of the fee constraints, fails first or the negation of taker_fee_bp as
\* i16 overflows and panics.
C6_FeeRange ==
    BadBp(req.maker, req.taker) =>
      /\ pc = "failed"
      /\ acc = ledger
      /\ log = <<>>
      /\ \/ err = "InvalidPlatformFeeBp"
         \/ req.price = 0 /\ err = "ConstraintRaw"
         \/ AsI16(req.taker) = -32768 /\ err = "ProgramPanic"

\* a taker fee that reads as negative once cast to i16, with a maker fee
\* that passes the cast lower bound, has been rejected
C6_Witness ==
    /\ pc = "failed"
    /\ err = "InvalidPlatformFeeBp"
    /\ req.taker >= 32768
    /\ req.maker >= -AsI16(req.taker)
    /\ req.maker <= MAX_MAKER_FEE_BP
    /\ req.price > 0

\* C7: a settlement whose payer is the seller never uses the escrow's
\* derivation proof for the treasury leg (the fee comes out of the seller's
\* wallet and the escrow is not debited for it); a settlement whose payer is
\* the buyer always funds the treasury leg from the escrow with the proof;
\* a zero platform fee moves nothing.
C7_TreasuryLeg ==
    /\ \A i \in EventsOf({"treasury"}) :
         IF req.payer = Seller
         THEN log[i].from = Wallet(Seller) /\ log[i].auth # "escrow_seeds"
         ELSE log[i].from = EscrowOf(req.buyer) /\ log[i].auth = "escrow_seeds"
    /\ pc \in {"close_escrow", "close_bid", "exit", "done"} =>
         /\ Cardinality(EventsOf({"treasury"}))
               = IF IsPositive(amt.platform) THEN 1 ELSE 0
         /\ EscrowDebit = amt.royalty + amt.receipt.v
                            + (IF req.payer = Seller THEN 0 ELSE amt.platform.v)

\* the seller was the payer and the treasury was paid from the seller's wallet
C7_Witness ==
    /\ pc = "done"
    /\ req.payer = Seller
    /\ amt.platform.v > 0
    /\ \E i \in EventsOf({"treasury"}) : log[i].from = Wallet(Seller)

\* C8: within a settlement all royalty payments out of the escrow complete
\* before the escrow-to-seller transfer and the treasury transfer start, the
\* escrow balance never goes below zero, and an escrow that cannot cover the
\* royalty and the legs drawn from it never yields a successful settlement.
C8_RoyaltyBeforeLegs ==
    /\ \A b \in Buyers : acc.escrow[b].bal >= 0 /\ ledger.escrow[b].bal >= 0
    /\ \A i \in EventsOf({"seller", "treasury"}) :
         \A j \in EventsOf({"royalty"}) : j < i
    /\ pc = "done" =>
         ledger.escrow[req.buyer].bal
            >= amt.royalty + amt.receipt.v
                 + (IF req.payer = Seller THEN 0 ELSE amt.platform.v)

\* the royalty was paid, then the escrow could not cover the seller's leg
C8_Witness ==
    /\ pc = "failed"
    /\ err = "SellerTransferFailed"
    /\ EventsOf({"royalty"}) # {}
    /\ ledger.escrow[req.buyer].bal >= req.price
    /\ acc.escrow[req.buyer].bal < amt.receipt.v

\* C9 as stated: neither the asset transfer nor a seller or treasury fund
\* transfer happens before the royalty payments.
C9_RoyaltyBeforeAnyValue ==
    \A i \in EventsOf({"asset_transfer", "seller", "treasury"}) :
       \A j \in EventsOf({"royalty"}) : j < i

\* C9 as the code has it: the asset is transferred first, then the
\* royalties are paid, then the seller and the treasury.
C9_RoyaltyAfterAsset ==
    /\ \A i \in EventsOf({"seller", "treasury"}) :
         \A j \in EventsOf({"royalty"}) : j < i
    /\ \A j \in EventsOf({"royalty", "seller", "treasury"}) :
         \E i \in EventsOf({"asset_transfer"}) : i < j
    /\ pc \in {"royalty", "fees", "pay_seller", "pay_treasury"} =>
         acc.owner[req.mint] = req.buyer

\* a settlement has succeeded with the asset moved, then a royalty paid,
\* then the seller paid
C9_Witness ==
    /\ pc = "done"
    /\ \E i \in EventsOf({"asset_transfer"}), j \in EventsOf({"royalty"}),
          k \in EventsOf({"seller"}) : i < j /\ j < k

\* the three agreements of a settlement: the caller's price, the offer's and
\* the bid's; the offer's asset, the bid's and the mint's; quantities of 1
Agreement ==
    LET offer == ledger.offer[req.sts]
        bid == ledger.bid[req.bts]
    IN /\ req.price = offer.price /\ req.price = bid.price
       /\ offer.mint = bid.mint /\ offer.mint = req.mint
       /\ offer.size = bid.size /\ bid.size = 1

\* C10: every successful settlement has the caller's price equal to the
\* offer's and the bid's, the offer's asset equal to the bid's and to the
\* asset transferred, and both quantities equal to 1; an attempt where one
\* of these fails never gets past the check and has no side effects.
C10_Agreement ==
    pc # "idle" =>
      /\ pc = "done" => Agreement
      /\ ~Agreement =>
           /\ pc \in {"args", "bid_args", "failed"}
           /\ acc = ledger
           /\ log = <<>>

\* the bid and the offer agree and the caller's price differs: rejected
C10_Witness ==
    /\ pc = "failed"
    /\ err = "InvalidAccountState"
    /\ ledger.offer[req.sts].price = ledger.bid[req.bts].price
    /\ ledger.offer[req.sts].size = 1
    /\ req.price # ledger.offer[req.sts].price
    /\ req.price > 0

\* C11: after every successful settlement the offer record has had its
\* quantity set to zero and is destroyed with its balance returned to the
\* seller, the bid record is cleared and destroyed with its balance returned
\* to the buyer, and neither record exists in any state after the success.
C11_RecordsRetired ==
    /\ pc = "exit" =>
         /\ acc.offer[req.sts].exists
         /\ acc.offer[req.sts].size = 0
         /\ acc.offer[req.sts].lamports = ledger.offer[req.sts].lamports
    /\ pc \in {"exit", "done"} =>
         /\ acc.bid[req.bts] = NoRecord
         /\ \E i \in EventsOf({"close_bid"}) :
               /\ log[i].to = Wallet(req.buyer)
               /\ log[i].amount = ledger.bid[req.bts].lamports
         /\ acc.wallet[req.buyer] - ledger.wallet[req.buyer]
               = ledger.bid[req.bts].lamports
                   + (ledger.escrow[req.buyer].reserve - acc.escrow[req.buyer].reserve)
                   - (IF req.payer = req.buyer THEN AtaCost ELSE 0)
    /\ pc = "done" =>
         /\ acc.offer[req.sts] = NoRecord
         /\ \E i \in EventsOf({"close_offer"}) :
               /\ log[i].to = Wallet(Seller)
               /\ log[i].amount = ledger.offer[req.sts].lamports
         /\ acc.wallet[Seller] - ledger.wallet[Seller]
               = ledger.offer[req.sts].lamports + amt.receipt.v
                   - (IF req.payer = Seller THEN amt.platform.v + AtaCost ELSE 0)
    /\ \A m \in Mints : uses.offer[m] > 0 => ledger.offer[m] = NoRecord
    /\ \A k \in BidKeys : uses.bid[k] > 0 => ledger.bid[k] = NoRecord

\* a settlement has succeeded: both records stood before it and are gone
C11_Witness ==
    /\ pc = "done"
    /\ ledger.offer[req.sts].exists /\ ledger.offer[req.sts].size = 1
    /\ ledger.bid[req.bts].exists
    /\ acc.offer[req.sts] = NoRecord
    /\ acc.bid[req.bts] = NoRecord
    /\ acc.wallet[Seller] >= ledger.wallet[Seller] + OfferRent

\* the stages of an attempt that follow the three custody calls
AfterCustody ==
    {"royalty", "fees", "pay_seller", "pay_treasury", "close_escrow",
     "close_bid", "exit", "done"}

\* the errors of the three custody calls
CustodyErrors ==
    {"CustodyUnlockFailed", "CustodyInitFailed", "CustodyTransferFailed"}

\* C12: in every settlement the custody calls happen in the order unlock,
\* init_account, transfer; init_account is made if and only if the buyer's
\* receiving account does not exist yet, and the payer funds it; unlock and
\* transfer are authorized by the program's derived authority, never by the
\* seller; after a successful settlement the buyer holds the asset and the
\* seller does not; a failure of any of the three calls ends the attempt
\* with nothing after it.
C12_CustodyOrder ==
    /\ \A i \in EventsOf({"unlock"}) : i = 1
    /\ \A i \in EventsOf({"init_account"}) :
         /\ i = 2
         /\ log[i].from = Wallet(req.payer)
         /\ log[i].auth = "payer"
    /\ \A i \in EventsOf({"asset_transfer"}) :
         /\ EventsOf({"unlock"}) # {}
         /\ i = 2 + Cardinality(EventsOf({"init_account"}))
         /\ log[i].from = <<"ata", Seller>>
         /\ log[i].to = <<"ata", req.buyer>>
    /\ \A i \in EventsOf({"unlock", "asset_transfer"}) :
         log[i].auth = "program_as_signer"
    /\ pc \in AfterCustody \cup {"transfer"} =>
         /\ EventsOf({"init_account"}) # {} <=> ledger.ata[req.buyer] = 0
         /\ acc.ata[req.buyer] > 0
         /\ EventsOf({"init_account"}) # {} =>
               /\ AtaCost = AtaRent
               /\ ledger.wallet[req.payer] >= AtaRent
    /\ pc \in AfterCustody =>
         /\ Cardinality(EventsOf({"unlock"})) = 1
         /\ Cardinality(EventsOf({"asset_transfer"})) = 1
         /\ acc.owner[req.mint] = req.buyer
         /\ acc.owner[req.mint] # Seller
    /\ err \in CustodyErrors =>
         /\ pc = "failed"
         /\ EventsOf({"royalty", "seller", "treasury", "close_escrow",
                      "close_bid", "close_offer"}) = {}
         /\ acc.owner[req.mint] = Seller

\* a settlement paid by the seller has succeeded for a buyer whose
\* receiving account had to be created
C12_Witness ==
    /\ pc = "done"
    /\ req.payer = Seller
    /\ ledger.ata[req.buyer] = 0
    /\ acc.ata[req.buyer] = AtaRent
    /\ ledger.owner[req.mint] = Seller
    /\ acc.owner[req.mint] = req.buyer
    /\ Len(log) >= 3
    /\ log[1].op = "unlock" /\ log[2].op = "init_account"
    /\ log[3].op = "asset_transfer"

\* the value of x as the unbounded integer it stands for is within one of
\* num / BpDenominator: |x * BpDenominator - num| < BpDenominator
WithinOne(x, num) ==
    LET scaled == Z(x.neg, [i \in 1..WideLen |-> IF i = 1 THEN 0 ELSE x.mag[i - 1]])
        d == ZAdd(scaled, ZNeg(num))
    IN /\ x.mag[WideLen] = 0
       /\ \A i \in 2..WideLen : d.mag[i] = 0

\* the four amounts as the unbounded integers of the formulas
ExactAmounts ==
    /\ WithinOne(amt.maker_fee, ZMulSmall(req.price, amt.maker_bp))
    /\ WithinOne(amt.taker_fee, ZMulSmall(req.price, amt.taker_bp))
    /\ amt.receipt = ZAdd(req.price, IF req.payer = Seller THEN amt.maker_fee
                                     ELSE ZNeg(amt.maker_fee))
    /\ amt.platform = ZAdd(amt.maker_fee, amt.taker_fee)

\* C13 as stated: for every u64 price and admissible basis points the
\* computed maker_fee, taker_fee, seller_receipt and platform_fee are exact
\* or the settlement fails with NumericalOverflow before any transfer, so
\* that every amount transferred is an exact one.
C13_ExactOrOverflow ==
    pc # "wide_fees" =>
      \/ pc = "failed" /\ err = "NumericalOverflow" /\ log = <<>>
      \/ ExactAmounts

\* what holds of the code: the amounts are exact or the settlement fails
\* with NumericalOverflow whenever the price is below 2^63
C13_ExactBelowTwoTo63 ==
    (pc # "wide_fees" /\ InI64(req.price)) =>
      \/ pc = "failed" /\ err = "NumericalOverflow" /\ log = <<>>
      \/ ExactAmounts

\* a price of 2^63 or more whose receipt passes 2^64: the receipt computed
\* is the exact one less 2^64, no error was raised, and the escrow has paid
\* the seller that amount
C13_Witness ==
    /\ pc = "wide_done"
    /\ err = "none"
    /\ ~InI64(req.price)
    /\ req.payer # Seller
    /\ ~InU64(ZAdd(req.price, ZNeg(amt.maker_fee)))
    /\ amt.receipt = ZAdd(ZAdd(req.price, ZNeg(amt.maker_fee)), Z(TRUE, TwoTo64))
    /\ \E i \in EventsOf({"seller"}) : log[i].amount = amt.receipt
    /\ acc.seller = ZAdd(ledger.seller, amt.receipt)

\* what the legs of the attempt leave in the buyer's escrow
EscrowLeft ==
    ledger.escrow[req.buyer].bal
       - (amt.royalty + amt.receipt.v
            + (IF req.payer = Seller THEN 0 ELSE amt.platform.v))

\* C14: after a successful settlement the buyer's escrow is closed, with
\* its reserve returned to the buyer, if and only if the settlement left it
\* at zero balance; an escrow with a balance left stays open with that
\* balance and its reserve intact; no other escrow is touched.
C14_EscrowClose ==
    /\ pc \in {"close_bid", "exit", "done"} =>
         /\ ~acc.escrow[req.buyer].open <=> EscrowLeft = 0
         /\ EscrowLeft = 0 =>
               /\ acc.escrow[req.buyer] = [open |-> FALSE, bal |-> 0, reserve |-> 0]
               /\ Cardinality(EventsOf({"close_escrow"})) = 1
               /\ \A i \in EventsOf({"close_escrow"}) :
                     /\ log[i].from = EscrowOf(req.buyer)
                     /\ log[i].to = Wallet(req.buyer)
                     /\ log[i].amount = ledger.escrow[req.buyer].reserve
         /\ EscrowLeft # 0 =>
               /\ acc.escrow[req.buyer]
                     = [open |-> TRUE, bal |-> EscrowLeft,
                        reserve |-> ledger.escrow[req.buyer].reserve]
               /\ EscrowLeft > 0
               /\ EventsOf({"close_escrow"}) = {}
    /\ pc # "idle" =>
         \A b \in Buyers \ {req.buyer} : acc.escrow[b] = ledger.escrow[b]

\* a settlement has succeeded that took the whole deposit: the escrow is
\* closed and the buyer has its reserve
C14_Witness ==
    /\ pc = "done"
    /\ ledger.escrow[req.buyer].open
    /\ ledger.escrow[req.buyer].bal > 0
    /\ ~acc.escrow[req.buyer].open
    /\ \E i \in EventsOf({"close_escrow"}) : log[i].amount = EscrowReserve
    /\ acc.wallet[req.buyer] >= ledger.wallet[req.buyer] + EscrowReserve

\* C15 as stated: maker_fee is floor(price * maker_bp / 10000) for every
\* admissible signed maker_bp, negative ones whose product with the price
\* is no multiple of 10000 included, and taker_fee is floor(price *
\* taker_bp / 10000).
C15_FloorFees ==
    pc = "pay_seller" =>
      /\ amt.maker_fee = (req.price * amt.maker_bp) \div BpDenominator
      /\ amt.taker_fee = (req.price * amt.taker_bp) \div BpDenominator

\* C15 as the code has it: maker_fee is price * maker_bp / 10000 with the
\* fraction dropped, that is rounded toward zero: the floor when the product
\* is not negative or is a multiple of 10000, and the floor plus one (the
\* ceiling) for a rebate whose product is no multiple of 10000; taker_fee is
\* the floor.
C15_TruncatedFees ==
    pc = "pay_seller" =>
      LET num == req.price * amt.maker_bp
          floor == num \div BpDenominator
      IN /\ Abs(amt.maker_fee * BpDenominator) <= Abs(num)
         /\ Abs(num - amt.maker_fee * BpDenominator) < BpDenominator
         /\ (num >= 0 \/ num % BpDenominator = 0) => amt.maker_fee = floor
         /\ (num < 0 /\ num % BpDenominator # 0) => amt.maker_fee = floor + 1
         /\ amt.taker_fee = (req.price * amt.taker_bp) \div BpDenominator

\* a rebate whose product with the price is no multiple of 10000 has been
\* computed: it is one above the floor
C15_Witness ==
    /\ pc = "pay_seller"
    /\ amt.maker_bp < 0
    /\ (req.price * amt.maker_bp) % BpDenominator # 0
    /\ amt.maker_fee = (req.price * amt.maker_bp) \div BpDenominator + 1
    /\ req.price = AskPrice

\* C16: a settlement whose payer is neither the buyer nor the seller always
\* fails, and so does one whose notary is not the marketplace's; in both
\* cases nothing moves and no record changes, whatever the other inputs
\* are.  The error is SaleRequiresSigner, respectively InvalidNotary,
\* whenever the accounts load and no constraint declared earlier fails.
C16_Authorization ==
    pc # "idle" =>
      /\ req.payer \notin {req.buyer, Seller} =>
            /\ pc = "failed"
            /\ acc = ledger
            /\ log = <<>>
            /\ err = IF ledger.offer[req.sts].exists
                     THEN "SaleRequiresSigner" ELSE "AccountNotInitialized"
      /\ req.notary # ConfiguredNotary =>
            /\ pc = "failed"
            /\ acc = ledger
            /\ log = <<>>
            /\ (/\ ledger.offer[req.sts].exists
                /\ req.payer \in {req.buyer, Seller}
                /\ ledger.owner[req.mint] = Seller) => err = "InvalidNotary"
      /\ err = "SaleRequiresSigner" => req.payer \notin {req.buyer, Seller}
      /\ err = "InvalidNotary" => req.notary # ConfiguredNotary

\* a request with a foreign notary, an outsider as payer and the second
\* mint's records has been rejected for its payer
C16_Witness ==
    /\ pc = "failed"
    /\ err = "SaleRequiresSigner"
    /\ req.payer = Outsider
    /\ req.notary # ConfiguredNotary
    /\ req.bts # <<req.buyer, req.mint>>
    /\ ledger.offer[req.sts].exists
    /\ ledger.bid[<<req.buyer, "m1">>].exists

\* the stages of an attempt that follow the royalty payments
AfterRoyalty ==
    {"fees", "pay_seller", "pay_treasury", "close_escrow", "close_bid",
     "exit", "done"}

\* the royalty events of the log that pay creator c
PaidTo(c) == {i \in EventsOf({"royalty"}) : log[i].to = Wallet(c)}

\* what the state says of the royalties
RoyaltyState ==
    /\ \A i \in EventsOf({"royalty"}) :
         /\ log[i].from = EscrowOf(req.buyer)
         /\ log[i].auth = "escrow_seeds"
         /\ log[i].amount > 0
    /\ pc \in AfterRoyalty =>
         LET R == EventsOf({"royalty"}) IN
         /\ amt.royalty = SumOver([i \in R |-> log[i].amount], R)
         /\ amt.royalty
               = SumOver(acc.wallet, Creators) - SumOver(ledger.wallet, Creators)
         /\ \A k \in 1..Len(amt.creators) :
               LET c == amt.creators[k] IN
               IF c.bps = 0 THEN PaidTo(c.who) = {}
               ELSE /\ Cardinality(PaidTo(c.who)) = 1
                    /\ \A i \in PaidTo(c.who) :
                          log[i].amount = (req.price * c.bps) \div BpDenominator
         /\ Cardinality(R)
               = Cardinality({k \in 1..Len(amt.creators) : amt.creators[k].bps > 0})
         /\ amt.creators = <<>> => amt.royalty = 0 /\ R = {}
    /\ err = "RoyaltyPaymentFailed" =>
         /\ pc = "failed"
         /\ amt.creators # <<>>
         /\ amt.royalty = 0
         /\ EventsOf({"seller", "treasury"}) = {}

\* C17: the royalty total returned equals the sum of the amounts moved
\* from the buyer's escrow to the creators; a creator with zero share
\* receives no transfer; with no creators the royalty is 0, no royalty
\* transfer is made and the settlement goes on to the seller and treasury
\* legs; a failed creator payment ends the attempt, and the attempt leaves
\* no creator paid.
C17_RoyaltyTotal ==
    /\ []RoyaltyState
    /\ [][(pc = "failed" /\ err = "RoyaltyPaymentFailed") =>
             \A c \in Creators : ledger'.wallet[c] = ledger.wallet[c]]_vars

\* the first creator of two was paid, the second payment failed
C17_Witness ==
    /\ pc = "failed"
    /\ err = "RoyaltyPaymentFailed"
    /\ Cardinality(EventsOf({"royalty"})) = 1
    /\ acc.wallet["c1"] > ledger.wallet["c1"]
    /\ acc.wallet["c2"] = ledger.wallet["c2"]
    /\ Len(amt.creators) = 2

\* the stages of an attempt that follow the fee computation
AfterFees ==
    {"pay_seller", "pay_treasury", "close_escrow", "close_bid", "exit", "done"}

\* the errors of the steps that follow the fee computation
LegErrors ==
    {"SellerTransferFailed", "TreasuryTransferFailed", "EscrowCloseFailed",
     "BidCloseFailed"}

\* C18: for every request that passes the fee range constraints and whose
\* resolved basis points are the caller's, platform_fee = maker_fee +
\* taker_fee is never negative and seller_receipt is never negative, so
\* neither becomes a wrapped amount when converted to u64; the treasury
\* transfer is made exactly when platform_fee > 0.
C18_NonNegative ==
    (/\ pc \in AfterFees \/ (pc = "failed" /\ err \in LegErrors)
     /\ amt.maker_bp = req.maker /\ amt.taker_bp = req.taker) =>
      /\ req.maker >= -req.taker
      /\ req.maker <= MAX_MAKER_FEE_BP
      /\ req.taker <= MAX_TAKER_FEE_BP
      /\ amt.maker_fee + amt.taker_fee >= 0
      /\ amt.platform = U64(amt.maker_fee + amt.taker_fee)
      /\ amt.receipt.v >= 0 /\ ~amt.receipt.wrapped
      /\ amt.receipt.v = IF req.payer = Seller THEN req.price + amt.maker_fee
                         ELSE req.price - amt.maker_fee
      /\ EventsOf({"treasury"}) # {} => amt.platform.v > 0
      /\ pc \in {"close_escrow", "close_bid", "exit", "done"} =>
            Cardinality(EventsOf({"treasury"}))
               = IF amt.platform.v > 0 THEN 1 ELSE 0

\* a rebate as large as the taker fee allows has been settled: the platform
\* fee is zero and the treasury was not paid
C18_Witness ==
    /\ pc = "done"
    /\ req.maker = -req.taker
    /\ req.taker > 0
    /\ amt.maker_bp = req.maker /\ amt.taker_bp = req.taker
    /\ amt.maker_fee < 0
    /\ (req.price * req.maker) % BpDenominator # 0
    /\ amt.platform = U64(0)
    /\ EventsOf({"treasury"}) = {}

\* C19: when the payer is the seller, the escrow-to-seller transfer of
\* seller_receipt happens before the seller-to-treasury transfer of
\* platform_fee, so the fee can be paid out of the proceeds: whenever
\* seller_receipt >= platform_fee the treasury leg does not fail, even for a
\* seller whose wallet held nothing before the settlement.
C19_FeeFromProceeds ==
    req.payer = Seller =>
      /\ \A i \in EventsOf({"treasury"}) :
            /\ log[i].from = Wallet(Seller)
            /\ \E j \in EventsOf({"seller"}) :
                  /\ j < i
                  /\ log[j].to = Wallet(Seller)
                  /\ log[j].amount = amt.receipt.v
      /\ pc = "pay_treasury" =>
            /\ EventsOf({"seller"}) # {}
            /\ acc.wallet[Seller]
                  = ledger.wallet[Seller] - AtaCost + amt.receipt.v
      /\ (/\ ~amt.platform.wrapped
          /\ amt.receipt.v >= amt.platform.v) => err # "TreasuryTransferFailed"
      /\ err = "TreasuryTransferFailed" =>
            \/ amt.platform.wrapped
            \/ ledger.wallet[Seller] - AtaCost + amt.receipt.v < amt.platform.v

\* a seller whose wallet held nothing has paid a platform fee out of the
\* proceeds of the sale
C19_Witness ==
    /\ pc = "done"
    /\ req.payer = Seller
    /\ ledger.wallet[Seller] = 0
    /\ amt.platform.v > 0
    /\ \E i \in EventsOf({"treasury"}) :
          log[i].from = Wallet(Seller) /\ log[i].amount = amt.platform.v
    /\ acc.wallet[Treasury] = ledger.wallet[Treasury] + amt.platform.v

====
